---- MODULE Spec2Model ----
(***************************************************************************)
(* Model of src/gpt/app.py: the ModelHolder lifecycle (load, the           *)
(* background worker started by ensure_loaded_async, ready_for), the       *)
(* startup hook and the /ready and /generate handlers, as threads that     *)
(* interleave at every access to the holder's shared fields.  The request  *)
(* threads of the server are interchangeable, so the model keeps the bag   *)
(* of their states (position and locals) rather than one state per name.   *)
(* A second specification, GenSpec, follows one /generate request on a     *)
(* resident model in detail (body, decode arguments, tokens, response).    *)
(*                                                                         *)
(* Atomicity.  A step is one access to a shared field of `holder`.         *)
(*  - `with self._lock:` sections hold no blocking call and every write of *)
(*    `loading` is inside one, so each section is one step.                *)
(*  - ready_for reads self.model and then self.model_id.  model never      *)
(*    goes back to None and model_id never changes once set, so the two    *)
(*    reads always return a value ready_for had at one instant in between: *)
(*    it is one step.                                                      *)
(*  - Statements touching only locals or immutable module globals are      *)
(*    folded into the preceding shared access (lines 72-77 into 69, line   *)
(*    81 into 79, lines 91-97 into 93).                                    *)
(***************************************************************************)
EXTENDS Integers, Sequences, FiniteSets, Bags

\* Number of request-handling threads of the HTTP server.
NumThreads == 2
\* Number of background load threads that may be started in one run.
MaxLoads == 2

\* Python's None, for the Optional[str] fields and for references.
None == "None"

\* The exception texts of ModelHolder.load (lines 74, 90, 97).
E_NOMXFP4 == "MXFP4 is required but not available in transformers build"
E_NOHQ == "MXFP4 required but model.hf_quantizer missing (dequantized)"
E_FALLBACK == "MXFP4 required but quantization fell back (dequantized or different method)"
\* str(e) of an exception raised by the library calls of lines 69, 79, 81:
\* any text, the empty one included (str(AssertionError()) == "").
LibErrTexts == {"load failed", ""}
VerifyErrTexts == {E_NOHQ, E_FALLBACK}

\* _default_model(): the single supported model id (the environment is fixed
\* for the life of the process).
DefaultModel == "openai/gpt-oss-120b"

\* What AutoModelForCausalLM.from_pretrained may hand back: the attributes
\* the verification of lines 88-97 reads.  hq: hf_quantizer is attached;
\* qm: hq.quantization_config.quant_method; dm: ....dequantize.
NoQuantizer == [hq |-> FALSE, qm |-> None, dm |-> None]
QuantOutcomes ==
    { [hq |-> TRUE,  qm |-> "mxfp4", dm |-> "False"],
      NoQuantizer,
      [hq |-> TRUE,  qm |-> "bnb",   dm |-> "False"],
      [hq |-> TRUE,  qm |-> "mxfp4", dm |-> "True"],
      [hq |-> TRUE,  qm |-> None,    dm |-> None] }

\* The threads that can run ModelHolder.load: 0 is the startup hook's
\* thread, 1..MaxLoads are the background threads of ensure_loaded_async.
StartupLoader == 0
Workers == 1 .. MaxLoads
Loaders == 0 .. MaxLoads

\* A model object: obj names the load that created it (0: no object).
NoModel == [obj |-> 0, hq |-> FALSE, qm |-> None, dm |-> None]
NewModel(l, q) == [obj |-> l + 1, hq |-> q.hq, qm |-> q.qm, dm |-> q.dm]

VARIABLES
    phase,          \* "boot", "startup", "serving", "exited"
    mxfp4,          \* the import of lines 11-16 succeeded
    model_id, model, tok, loading, last_error, quant_enforced, quant_method,
    ld,             \* ld[l]: position, pending exception and result of loader l
    th,             \* the bag of the request threads' positions and locals
    gen             \* one /generate request on a resident model, in detail

holderVars == <<model_id, model, tok, loading, last_error, quant_enforced, quant_method>>
vars == <<phase, mxfp4, model_id, model, tok, loading, last_error, quant_enforced,
          quant_method, ld, th, gen>>

\* exc: the exception load raised, while its thread handles it; ver: load's
\* verification of lines 86-97 passed; end: how the thread's load ended
\* ("ok", "unverified": it raised at line 90 or 97, "failed": it raised
\* elsewhere), kept once the thread and its locals are gone.
IdleLoader == [pc |-> "unborn", exc |-> None, ver |-> FALSE, end |-> "-"]
\* pc and the handler's locals; ov is history: while the thread was about to
\* enter ensure_loaded_async, another thread's call started a load (kept
\* until the step after the thread's own call).
IdleThread == [pc |-> "idle", loaded |-> FALSE, status |-> None, rloading |-> FALSE,
               m |-> NoModel, t |-> None, ov |-> FALSE]

\* No request is being followed in detail.
IdleGen == [pc |-> "idle", body |-> <<>>, req |-> <<>>, input_len |-> 0,
            call |-> <<>>, out |-> <<>>, text |-> <<>>, resp |-> <<>>]

\* Python truthiness of an Optional[str].
Truthy(s) == s # None /\ s # ""

\* ModelHolder.ready_for.
ReadyFor == model # NoModel /\ model_id = DefaultModel

\* ModelHolder.__init__ and the module-level imports.
Init ==
    /\ phase = "boot"
    /\ mxfp4 \in BOOLEAN
    /\ model_id = None
    /\ model = NoModel
    /\ tok = None
    /\ loading = FALSE
    /\ last_error = None
    /\ quant_enforced = TRUE
    /\ quant_method = None
    /\ ld = [l \in Loaders |-> IdleLoader]
    /\ th = [r \in {IdleThread} |-> NumThreads]
    /\ gen = IdleGen

----------------------------------------------------------------------------
\* ModelHolder.load, run by loader l.

LoaderGoes(l, p) == ld' = [ld EXCEPT ![l].pc = p]
LoaderRaises(l, e) == ld' = [ld EXCEPT ![l].pc = "raised", ![l].exc = e]
LoadEnd(e) == IF e = None THEN "ok" ELSE IF e \in VerifyErrTexts THEN "unverified" ELSE "failed"
LoaderEnds(l) ==
    ld' = [ld EXCEPT ![l].pc = "done", ![l].exc = None, ![l].end = LoadEnd(ld[l].exc)]

\* Lines 65-67: nothing to do when the model is already resident.
LoadCheckResident(l) ==
    /\ ld[l].pc = "l65"
    /\ IF model_id = DefaultModel /\ model # NoModel
          THEN LoaderGoes(l, "returned")
          ELSE LoaderGoes(l, "l69")
    /\ UNCHANGED <<gen, phase, mxfp4, holderVars, th>>

\* Lines 69-77: the tokenizer is loaded and stored, then the MXFP4
\* configuration is built, which needs the import to have succeeded.
LoadTokenizer(l) ==
    /\ ld[l].pc = "l69"
    /\ \/ /\ \E e \in LibErrTexts : LoaderRaises(l, e)
          /\ UNCHANGED tok
       \/ /\ tok' = "tok"
          /\ IF quant_enforced /\ ~mxfp4
                THEN LoaderRaises(l, E_NOMXFP4)
                ELSE LoaderGoes(l, "l79")
    /\ UNCHANGED <<gen, phase, mxfp4, model_id, model, loading, last_error,
                   quant_enforced, quant_method, th>>

\* Lines 79-81: from_pretrained raises, or stores a new model object,
\* whatever its quantization turned out to be; moving it to the device may
\* then fail.  Nothing reads the quantizer of a model that was not moved
\* (load has raised, and the next load replaces the object before line 82),
\* so such a model is kept with no quantizer.
LoadModel(l) ==
    /\ ld[l].pc = "l79"
    /\ \/ /\ \E e \in LibErrTexts : LoaderRaises(l, e)
          /\ UNCHANGED model
       \/ /\ model' = NewModel(l, NoQuantizer)
          /\ \E e \in LibErrTexts : LoaderRaises(l, e)
       \/ \E q \in QuantOutcomes :
            /\ model' = NewModel(l, q)
            /\ LoaderGoes(l, "l82")
    /\ UNCHANGED <<gen, phase, mxfp4, model_id, tok, loading, last_error,
                   quant_enforced, quant_method, th>>

\* Line 82.
LoadPublishId(l) ==
    /\ ld[l].pc = "l82"
    /\ model_id' = DefaultModel
    /\ LoaderGoes(l, "l83")
    /\ UNCHANGED <<gen, phase, mxfp4, model, tok, loading, last_error,
                   quant_enforced, quant_method, th>>

\* Line 83 without its assignment.
LoadKeepError(l) ==
    /\ ld[l].pc = "l83"
    /\ LoaderGoes(l, "l85")
    /\ UNCHANGED <<gen, phase, mxfp4, model_id, model, tok, loading, last_error,
                   quant_enforced, quant_method, th>>

\* Line 83.
LoadClearError(l) ==
    /\ ld[l].pc = "l83"
    /\ last_error' = None
    /\ LoaderGoes(l, "l85")
    /\ UNCHANGED <<gen, phase, mxfp4, model_id, model, tok, loading,
                   quant_enforced, quant_method, th>>

\* Lines 85-90: quant_method is reset; then, under enforcement, the
\* quantizer must be attached to the model this load stored.
LoadCheckQuantizer(l) ==
    /\ ld[l].pc = "l85"
    /\ quant_method' = None
    /\ IF ~quant_enforced THEN LoaderGoes(l, "returned")
       ELSE IF ~model.hq THEN LoaderRaises(l, E_NOHQ)
       ELSE LoaderGoes(l, "l93")
    /\ UNCHANGED <<gen, phase, mxfp4, model_id, model, tok, loading, last_error,
                   quant_enforced, th>>

\* Line 93: str(qm) if qm is not None else None (the text of a method is
\* its name).
QuantMethodText(qm) == IF qm # None THEN qm ELSE None

\* Line 94: the quantizer reports MXFP4 with dequantize False.
QuantVerified(m) == mxfp4 /\ m.qm = "mxfp4" /\ m.dm = "False"

\* Lines 91-97: the observed method is recorded, then checked.
LoadVerifyQuant(l) ==
    /\ ld[l].pc = "l93"
    /\ quant_method' = QuantMethodText(model.qm)
    /\ IF QuantVerified(model)
          THEN ld' = [ld EXCEPT ![l].pc = "returned", ![l].ver = TRUE]
          ELSE LoaderRaises(l, E_FALLBACK)
    /\ UNCHANGED <<gen, phase, mxfp4, model_id, model, tok, loading, last_error,
                   quant_enforced, th>>

LoadStep(l) ==
    \/ LoadCheckResident(l)
    \/ LoadTokenizer(l)
    \/ LoadModel(l)
    \/ LoadPublishId(l)
    \/ LoadClearError(l)
    \/ LoadCheckQuantizer(l)
    \/ LoadVerifyQuant(l)

----------------------------------------------------------------------------
\* ModelHolder.ensure_loaded_async and its _worker.

UnbornWorkers == {l \in Workers : ld[l].pc = "unborn"}
FirstUnborn == CHOOSE l \in UnbornWorkers : \A k \in UnbornWorkers : l <= k
LoadsStarted == Cardinality(Workers \ UnbornWorkers)

\* Line 103 with the test of self.loading left out.
MayStartLoadIgnoringLoading == ~ReadyFor

\* Line 103 with the test of the resident model left out.
MayStartLoadIgnoringResident == ~loading

\* Line 103, negated: neither resident nor being loaded.
MayStartLoad == ~(ReadyFor \/ loading)

\* The positions of a thread that has called ensure_loaded_async and not
\* yet been through its locked section.
EnsurePcs == {"r135", "g170"}

\* The request threads in the bag, and one of them stepping from r to r2.
ThreadStates == BagToSet(th)
Move(b, r, r2) == (b (-) SetToBag({r})) (+) SetToBag({r2})

\* History kept for the threads waiting to enter ensure_loaded_async when
\* another thread's call starts a load: their ov is set.
Overlapped(u) == IF u.pc \in EnsurePcs THEN [u EXCEPT !.ov = TRUE] ELSE u
MarkOverlapped(b) ==
    [v \in {Overlapped(u) : u \in BagToSet(b)} |->
        LET w == [v EXCEPT !.ov = FALSE]
        IN  (IF Overlapped(v) = v THEN CopiesIn(v, b) ELSE 0)
            + (IF w # v /\ Overlapped(w) = v THEN CopiesIn(w, b) ELSE 0)]

\* Lines 101-116, called by the thread in state r, which goes on at p: under
\* the lock, return when resident or loading; else set loading and start a
\* new thread on _worker.  At most MaxLoads threads are started in one run.
EnsureLoadedAsync(r, p) ==
    /\ MayStartLoad => UnbornWorkers # {}
    /\ IF MayStartLoad
          THEN /\ loading' = TRUE
               /\ ld' = [ld EXCEPT ![FirstUnborn].pc = "l65"]
               /\ th' = MarkOverlapped(th (-) SetToBag({r}))
                           (+) SetToBag({[r EXCEPT !.pc = p]})
          ELSE /\ UNCHANGED <<loading, ld>>
               /\ th' = Move(th, r, [r EXCEPT !.pc = p])

\* Lines 110-111: the exception text is recorded.
WorkerExcept(l) ==
    /\ ld[l].pc = "raised"
    /\ last_error' = ld[l].exc
    /\ LoaderGoes(l, "finally")
    /\ UNCHANGED <<gen, phase, mxfp4, model_id, model, tok, loading,
                   quant_enforced, quant_method, th>>

\* A worker whose flag reset runs only when load returned (an else: clause
\* in place of finally:).
WorkerResetOnSuccessOnly(l) ==
    /\ ld[l].pc \in {"returned", "finally"}
    /\ loading' = (ld[l].exc # None)
    /\ LoaderEnds(l)
    /\ UNCHANGED <<gen, phase, mxfp4, model_id, model, tok, last_error,
                   quant_enforced, quant_method, th>>

\* Lines 112-114: on every exit of the try, under the lock, loading is reset.
WorkerFinally(l) ==
    /\ ld[l].pc \in {"returned", "finally"}
    /\ loading' = FALSE
    /\ LoaderEnds(l)
    /\ UNCHANGED <<gen, phase, mxfp4, model_id, model, tok, last_error,
                   quant_enforced, quant_method, th>>

WorkerStep(l) ==
    \/ LoadStep(l)
    \/ WorkerExcept(l)
    \/ WorkerFinally(l)

----------------------------------------------------------------------------
\* The startup hook enforce_quant_and_eager_load, on the server's main
\* thread, before any request is accepted.

\* Lines 150-153.
StartupBegin ==
    /\ phase = "boot"
    /\ phase' = "startup"
    /\ quant_enforced' = TRUE
    /\ LoaderGoes(StartupLoader, "l65")
    /\ UNCHANGED <<gen, mxfp4, model_id, model, tok, loading, last_error,
                   quant_method, th>>

\* The hook returns: the server starts accepting requests.
StartupDone ==
    /\ phase = "startup"
    /\ ld[StartupLoader].pc = "returned"
    /\ phase' = "serving"
    /\ LoaderEnds(StartupLoader)
    /\ UNCHANGED <<gen, mxfp4, holderVars, th>>

\* Lines 154-162 without the raise of line 162: the exception is printed and
\* the hook returns, so the server goes on to accept requests.
StartupLogsAndServes ==
    /\ phase = "startup"
    /\ ld[StartupLoader].pc = "raised"
    /\ phase' = "serving"
    /\ LoaderEnds(StartupLoader)
    /\ UNCHANGED <<gen, mxfp4, holderVars, th>>

\* Lines 154-162: the exception is printed and re-raised; the server exits.
StartupFatal ==
    /\ phase = "startup"
    /\ ld[StartupLoader].pc = "raised"
    /\ phase' = "exited"
    /\ LoaderEnds(StartupLoader)
    /\ UNCHANGED <<gen, mxfp4, holderVars, th>>

\* The application is served without its startup event (the server's
\* lifespan protocol switched off, or the handlers driven by a test client
\* that does not enter the lifespan): the holder is as __init__ left it.
ServeWithoutStartup ==
    /\ phase = "boot"
    /\ phase' = "serving"
    /\ UNCHANGED <<gen, mxfp4, holderVars, ld, th>>

----------------------------------------------------------------------------
\* The request handlers: XAt(r) is step X taken by a request thread in state r.

\* History: a background load that failed its quantization verification has
\* run to its end.
VerifyFailedLoadDone ==
    \E l \in Workers : ld[l].end = "unverified"

Goes(r, p) == th' = Move(th, r, [r EXCEPT !.pc = p])
\* The handler returns or raises: the response is sent and the thread is
\* free for the next request.
Responds(r) == th' = Move(th, r, IdleThread)

\* GET /ready, line 134, first operand: not holder.ready_for(model_id).
ReadyTestReadyAt(r) ==
    /\ phase = "serving"
    /\ r.pc = "idle"
    /\ Goes(r, IF ReadyFor THEN "r136" ELSE "r134b")
    /\ UNCHANGED <<gen, phase, mxfp4, holderVars, ld>>

\* Line 134, second operand: not holder.loading.
ReadyTestLoadingAt(r) ==
    /\ r.pc = "r134b"
    /\ Goes(r, IF loading THEN "r136" ELSE "r134c")
    /\ UNCHANGED <<gen, phase, mxfp4, holderVars, ld>>

\* Line 134, third operand: holder.last_error is None.
ReadyTestErrorAt(r) ==
    /\ r.pc = "r134c"
    /\ Goes(r, IF last_error = None THEN "r135" ELSE "r136")
    /\ UNCHANGED <<gen, phase, mxfp4, holderVars, ld>>

\* Line 135.
ReadyEnsureAt(r) ==
    /\ r.pc = "r135"
    /\ EnsureLoadedAsync(r, "r136")
    /\ UNCHANGED <<gen, phase, mxfp4, model_id, model, tok, last_error,
                   quant_enforced, quant_method>>

\* Line 136.
ReadyReadLoadedAt(r) ==
    /\ r.pc = "r136"
    /\ th' = Move(th, r, [r EXCEPT !.pc = "r137", !.loaded = ReadyFor, !.ov = FALSE])
    /\ UNCHANGED <<gen, phase, mxfp4, holderVars, ld>>

\* Line 137.
ReadyStatus(e, loaded) ==
    IF Truthy(e) THEN "error" ELSE IF loaded THEN "ready" ELSE "loading"

ReadyReadStatusAt(r) ==
    /\ r.pc = "r137"
    /\ th' = Move(th, r, [r EXCEPT !.pc = "r142",
                        !.status = ReadyStatus(last_error, r.loaded)])
    /\ UNCHANGED <<gen, phase, mxfp4, holderVars, ld>>

\* Lines 142-143: the response's loading field (and its quant_method, which
\* the model does not keep).
ReadyReadLoadingAt(r) ==
    /\ r.pc = "r142"
    /\ th' = Move(th, r, [r EXCEPT !.pc = "r144", !.rloading = loading])
    /\ UNCHANGED <<gen, phase, mxfp4, holderVars, ld>>

\* Line 144 and the return: the ReadyResponse sent is status, loaded and
\* loading as the locals hold them, and error as last_error is now.
ReadyRespondAt(r) ==
    /\ r.pc = "r144"
    /\ Responds(r)
    /\ UNCHANGED <<gen, phase, mxfp4, holderVars, ld>>

\* POST /generate, line 169.
GenTestReadyAt(r) ==
    /\ phase = "serving"
    /\ r.pc = "idle"
    /\ Goes(r, IF ReadyFor THEN "g187" ELSE "g170")
    /\ UNCHANGED <<gen, phase, mxfp4, holderVars, ld>>

\* Line 170.
GenEnsureAt(r) ==
    /\ r.pc = "g170"
    /\ EnsureLoadedAsync(r, "g171")
    /\ UNCHANGED <<gen, phase, mxfp4, model_id, model, tok, last_error,
                   quant_enforced, quant_method>>

\* Line 171.
GenTestErrorAt(r) ==
    /\ r.pc = "g171"
    /\ th' = Move(th, r, [r EXCEPT !.pc = IF Truthy(last_error) THEN "g174" ELSE "g177",
                        !.ov = FALSE])
    /\ UNCHANGED <<gen, phase, mxfp4, holderVars, ld>>

\* Lines 172-176: HTTP 503, status "error", with last_error as it is now.
GenRespondErrorAt(r) ==
    /\ r.pc = "g174"
    /\ Responds(r)
    /\ UNCHANGED <<gen, phase, mxfp4, holderVars, ld>>

\* Line 177.
GenTestReadyAgainAt(r) ==
    /\ r.pc = "g177"
    /\ Goes(r, IF ReadyFor THEN "g187" ELSE "g181")
    /\ UNCHANGED <<gen, phase, mxfp4, holderVars, ld>>

\* Lines 178-182: HTTP 202, status "loading", with last_error as it is now.
GenRespondLoadingAt(r) ==
    /\ r.pc = "g181"
    /\ Responds(r)
    /\ UNCHANGED <<gen, phase, mxfp4, holderVars, ld>>

\* Lines 184-187.
GenReadTokAt(r) ==
    /\ r.pc = "g187"
    /\ th' = Move(th, r, [r EXCEPT !.pc = "g188", !.t = tok])
    /\ UNCHANGED <<gen, phase, mxfp4, holderVars, ld>>

\* Lines 188-194: the model is read, then the prompt tokenized, outside any
\* try: an exception leaves the handler (the framework answers 500).
GenReadModelAt(r) ==
    /\ r.pc = "g188"
    /\ \/ th' = Move(th, r, [r EXCEPT !.pc = "g201", !.m = model])
       \/ Responds(r)
    /\ UNCHANGED <<gen, phase, mxfp4, holderVars, ld>>

\* Lines 197-210: the decode call model.generate on the model read at line
\* 188; an exception is answered with HTTP 503.
GenDecodeAt(r) ==
    /\ r.pc = "g201"
    /\ \/ Goes(r, "g214")
       \/ Responds(r)
    /\ UNCHANGED <<gen, phase, mxfp4, holderVars, ld>>

\* Lines 214-249: detokenization of the new tokens, where an exception is
\* answered with HTTP 503; else usage, the log line, HTTP 200 with the text.
GenRespondTextAt(r) ==
    /\ r.pc = "g214"
    /\ Responds(r)
    /\ UNCHANGED <<gen, phase, mxfp4, holderVars, ld>>

\* The steps of the handlers, each taken by some request thread.
ReadyTestReady == \E r \in ThreadStates : ReadyTestReadyAt(r)
ReadyTestLoading == \E r \in ThreadStates : ReadyTestLoadingAt(r)
ReadyTestError == \E r \in ThreadStates : ReadyTestErrorAt(r)
ReadyEnsure == \E r \in ThreadStates : ReadyEnsureAt(r)
ReadyReadLoaded == \E r \in ThreadStates : ReadyReadLoadedAt(r)
ReadyReadStatus == \E r \in ThreadStates : ReadyReadStatusAt(r)
ReadyReadLoading == \E r \in ThreadStates : ReadyReadLoadingAt(r)
ReadyRespond == \E r \in ThreadStates : ReadyRespondAt(r)
GenTestReady == \E r \in ThreadStates : GenTestReadyAt(r)
GenEnsure == \E r \in ThreadStates : GenEnsureAt(r)
GenTestError == \E r \in ThreadStates : GenTestErrorAt(r)
GenRespondError == \E r \in ThreadStates : GenRespondErrorAt(r)
GenTestReadyAgain == \E r \in ThreadStates : GenTestReadyAgainAt(r)
GenRespondLoading == \E r \in ThreadStates : GenRespondLoadingAt(r)
GenReadTok == \E r \in ThreadStates : GenReadTokAt(r)
GenReadModel == \E r \in ThreadStates : GenReadModelAt(r)
GenDecode == \E r \in ThreadStates : GenDecodeAt(r)
GenRespondText == \E r \in ThreadStates : GenRespondTextAt(r)

ReadyRequest ==
    \/ ReadyTestReady
    \/ ReadyTestLoading
    \/ ReadyTestError
    \/ ReadyEnsure
    \/ ReadyReadLoaded
    \/ ReadyReadStatus
    \/ ReadyReadLoading
    \/ ReadyRespond

GenerateRequest ==
    \/ GenTestReady
    \/ GenEnsure
    \/ GenTestError
    \/ GenRespondError
    \/ GenTestReadyAgain
    \/ GenRespondLoading
    \/ GenReadTok
    \/ GenReadModel
    \/ GenDecode
    \/ GenRespondText

----------------------------------------------------------------------------
Next ==
    \/ StartupBegin
    \/ ServeWithoutStartup
    \/ /\ phase = "startup"
       /\ LoadStep(StartupLoader)
    \/ StartupDone
    \/ StartupFatal
    \/ \E l \in Workers : WorkerStep(l)
    \/ ReadyRequest
    \/ GenerateRequest

Spec == Init /\ [][Next]_vars

\* The background thread, once started, runs to its end: the library calls
\* of load return or raise, and the lock is never held across a blocking
\* call.
FairSpec == Spec /\ \A l \in Workers : WF_vars(WorkerStep(l))

----------------------------------------------------------------------------
\* POST /generate on a resident model, in detail: the request body, the
\* keyword arguments of the decode call, the token sequences and the
\* response.  From line 184 on the handler works on locals only (tok and
\* model are read once, lines 187-188), so one request is followed on its
\* own, on the holder as a successful startup load leaves it.

\* The longest tokenized prompt and the longest decoder output.
MaxPromptTokens == 2
MaxOutTokens == 3

\* An Optional value: None, or a value.
Null == <<>>
Some(v) == <<v>>
\* A field of the JSON body: left out, or given (null included).
Absent == <<>>
Given(x) == <<x>>

\* class GenerateRequest, lines 21-36: the defaults of the fields the
\* properties are about (floats and bools by their text).
SchemaMaxNewTokens == 512
Defaults ==
    [max_new_tokens     |-> Some(SchemaMaxNewTokens),
     temperature        |-> Some("0.7"),
     top_p              |-> Some("0.95"),
     top_k              |-> Null,
     repetition_penalty |-> Null,
     do_sample          |-> Some("True"),
     eos_token_id       |-> Null,
     pad_token_id       |-> Null,
     stop               |-> Null]
Fields == DOMAIN Defaults

\* The request bodies tried: every field left out or given; a string is
\* the sequence of its characters.
Bodies ==
    [max_new_tokens     : {Absent, Given(Null), Given(Some(0)), Given(Some(1)),
                           Given(Some(1000))},
     temperature        : {Absent, Given(Some("0.2"))},
     top_p              : {Absent, Given(Some("0.5"))},
     top_k              : {Absent, Given(Some(40))},
     repetition_penalty : {Absent, Given(Some("1.1"))},
     do_sample          : {Absent, Given(Some("False"))},
     eos_token_id       : {Absent, Given(Some(2))},
     pad_token_id       : {Absent, Given(Some(0))},
     stop               : {Absent, Given(Some(<<>>)), Given(Some(<< <<"S">> >>))}]

\* pydantic's validation of the body against GenerateRequest: a field left
\* out takes its default, a given one (null included) its value.
ParseRequest(body) ==
    [f \in Fields |-> IF body[f] = Absent THEN Defaults[f] ELSE body[f][1]]

\* Line 204: req.max_new_tokens or 128 (None and 0 are falsy).
FallbackMaxNewTokens == 128
MaxNewTokensArg(x) ==
    IF x = Null THEN FallbackMaxNewTokens
    ELSE IF x[1] = 0 THEN FallbackMaxNewTokens
    ELSE x[1]

\* Lines 201-205: the keyword arguments model.generate is called with, as a
\* function of the names passed (the tensors by their length).
DecodeKwargs(req, n) ==
    [input_ids      |-> n,
     attention_mask |-> n,
     max_new_tokens |-> MaxNewTokensArg(req.max_new_tokens)]

\* Token ids, and what model.generate may return: any sequence of them, one
\* shorter than the prompt included (out[0]).
Tokens == {0, 1}
TokenSeqs == UNION {[1 .. n -> Tokens] : n \in 0 .. MaxOutTokens}

\* Line 216: out[0][input_len:].
GenIds(out, n) == IF n >= Len(out) THEN <<>> ELSE SubSeq(out, n + 1, Len(out))

\* Line 217: tok.decode(gen_ids, skip_special_tokens=False), the texts of
\* the tokens one after the other.
TokenText(t) == IF t = 0 THEN "a" ELSE "S"
Detok(ids) == [i \in 1 .. Len(ids) |-> TokenText(ids[i])]

\* Line 229 without its max(0, ...).
CompletionTokensUnfloored(prompt_tokens, total_tokens) == total_tokens - prompt_tokens

\* Line 229.
CompletionTokens(prompt_tokens, total_tokens) ==
    IF total_tokens - prompt_tokens > 0 THEN total_tokens - prompt_tokens ELSE 0

\* Lines 227-249: the usage of the response.
Usage(prompt_tokens, total_tokens) ==
    [prompt_tokens     |-> prompt_tokens,
     completion_tokens |-> CompletionTokens(prompt_tokens, total_tokens),
     total_tokens      |-> prompt_tokens + CompletionTokens(prompt_tokens, total_tokens)]

\* str(e) of an exception raised by the tokenizer or the model.
CallErrTexts == {"boom"}

\* What leaves the handler: HTTP 200 with text and usage; HTTP 503 with an
\* error made of a prefix and the exception's text; or the exception itself.
TextResponse(text, usage) == [kind |-> "text", code |-> 200, text |-> text, usage |-> usage]
ErrorResponse(prefix, e) == [kind |-> "error", code |-> 503, status |-> "error",
                             error |-> <<prefix, e>>]
Unhandled(e) == [kind |-> "raised", exc |-> e]

\* The holder after a successful startup load.
GenInit ==
    /\ phase = "serving"
    /\ mxfp4 = TRUE
    /\ model_id = DefaultModel
    /\ model = NewModel(StartupLoader, [hq |-> TRUE, qm |-> "mxfp4", dm |-> "False"])
    /\ tok = "tok"
    /\ loading = FALSE
    /\ last_error = None
    /\ quant_enforced = TRUE
    /\ quant_method = "mxfp4"
    /\ ld = [l \in Loaders |->
               IF l = StartupLoader
                  THEN [pc |-> "done", exc |-> None, ver |-> TRUE, end |-> "ok"]
                  ELSE IdleLoader]
    /\ th = [r \in {IdleThread} |-> NumThreads]
    /\ gen = IdleGen

\* Lines 165-169: the body is validated; ready_for is true, so lines 170-182
\* are skipped.
GenerateParse ==
    /\ gen.pc = "idle"
    /\ phase = "serving"
    /\ ReadyFor
    /\ \E body \in Bodies :
          gen' = [IdleGen EXCEPT !.pc = "g184", !.body = body,
                                 !.req = ParseRequest(body)]
    /\ UNCHANGED <<phase, mxfp4, holderVars, ld, th>>

\* Lines 184-194: tok and model are read and the prompt is tokenized, all
\* outside any try.
GenerateTokenize ==
    /\ gen.pc = "g184"
    /\ \/ \E e \in CallErrTexts :
            gen' = [gen EXCEPT !.pc = "sent", !.resp = Unhandled(e)]
       \/ \E n \in 0 .. MaxPromptTokens :
            gen' = [gen EXCEPT !.pc = "g197", !.input_len = n]
    /\ UNCHANGED <<phase, mxfp4, holderVars, ld, th>>

\* Lines 197-210 with the exception's text stored in holder.last_error, as
\* the background worker does with a load's.
GenerateDecodeRecordingError ==
    /\ gen.pc = "g197"
    /\ \/ /\ \E e \in CallErrTexts :
               /\ gen' = [gen EXCEPT !.pc = "sent",
                                     !.call = DecodeKwargs(gen.req, gen.input_len),
                                     !.resp = ErrorResponse("generation failed: ", e)]
               /\ last_error' = e
       \/ /\ \E out \in TokenSeqs :
               gen' = [gen EXCEPT !.pc = "g214",
                                  !.call = DecodeKwargs(gen.req, gen.input_len),
                                  !.out = out]
          /\ UNCHANGED last_error
    /\ UNCHANGED <<phase, mxfp4, model_id, model, tok, loading,
                   quant_enforced, quant_method, ld, th>>

\* Lines 197-210: model.generate is called; an exception is answered with
\* HTTP 503 "generation failed: ...".
GenerateDecode ==
    /\ gen.pc = "g197"
    /\ \/ \E e \in CallErrTexts :
            gen' = [gen EXCEPT !.pc = "sent",
                               !.call = DecodeKwargs(gen.req, gen.input_len),
                               !.resp = ErrorResponse("generation failed: ", e)]
       \/ \E out \in TokenSeqs :
            gen' = [gen EXCEPT !.pc = "g214",
                               !.call = DecodeKwargs(gen.req, gen.input_len),
                               !.out = out]
    /\ UNCHANGED <<phase, mxfp4, holderVars, ld, th>>

\* Lines 213-222: the new tokens are detokenized; an exception is answered
\* with HTTP 503 "decode failed: ...".  The text is not trimmed (line 224).
GenerateDetokenize ==
    /\ gen.pc = "g214"
    /\ \/ \E e \in CallErrTexts :
            gen' = [gen EXCEPT !.pc = "sent",
                               !.resp = ErrorResponse("decode failed: ", e)]
       \/ gen' = [gen EXCEPT !.pc = "g226",
                             !.text = Detok(GenIds(gen.out, gen.input_len))]
    /\ UNCHANGED <<phase, mxfp4, holderVars, ld, th>>

\* Lines 226-249: usage, the log line, HTTP 200.
GenerateRespond ==
    /\ gen.pc = "g226"
    /\ gen' = [gen EXCEPT !.pc = "sent",
                          !.resp = TextResponse(gen.text,
                                                Usage(gen.input_len, Len(gen.out)))]
    /\ UNCHANGED <<phase, mxfp4, holderVars, ld, th>>

\* The response has left; the thread takes the next request.
GenerateReturn ==
    /\ gen.pc = "sent"
    /\ gen' = IdleGen
    /\ UNCHANGED <<phase, mxfp4, holderVars, ld, th>>

GenNext ==
    \/ GenerateParse
    \/ GenerateTokenize
    \/ GenerateDecode
    \/ GenerateDetokenize
    \/ GenerateRespond
    \/ GenerateReturn

GenSpec == GenInit /\ [][GenNext]_vars

----------------------------------------------------------------------------
\* Vocabulary of the properties.

\* Loader l is executing ModelHolder.load or its caller's handling of it.
InFlight(l) == ld[l].pc \notin {"unborn", "done"}
\* Some load (at startup or in the background) has run to its end.
SomeLoadCompleted == \E l \in Loaders : ld[l].end # "-"
\* The model object m was created by a load whose verification passed.
Verified(m) == \E l \in Loaders : m.obj = l + 1 /\ ld[l].ver
\* The number of request threads at one of the positions P.
ThreadsAt(P) == BagCardinality([r \in {u \in ThreadStates : u.pc \in P} |-> th[r]])
\* In this step a thread in state r goes through ensure_loaded_async.
Calls(r) == ReadyEnsureAt(r) \/ GenEnsureAt(r)
\* In this step the call of a thread in state r starts a background load.
StartsLoad(r) == Calls(r) /\ LoadsStarted' > LoadsStarted
\* In this step a /generate in state r decides to serve the request (leaves
\* the gate of lines 169-182 towards the decode).
PassesGate(r) == ReadyFor /\ (GenTestReadyAt(r) \/ GenTestReadyAgainAt(r))
\* In this step worker l leaves its finally clause.
WorkerEnds(l) == ld[l].pc \in {"returned", "finally"} /\ ld'[l].pc = "done"
\* The lifecycle state ERROR: not ready, not loading, an error recorded.
ErrorState == ~ReadyFor /\ ~loading /\ last_error # None

\* C1: /generate invokes the decode routine (line 201) only on a model whose
\* quantization verification has passed (quantizer attached, method MXFP4,
\* dequantize false), never on one whose verification failed or has not run.
C1_DecodeOnlyVerified ==
    [][\A r \in ThreadStates : GenDecodeAt(r) =>
          /\ Verified(r.m)
          /\ r.m.hq /\ r.m.qm = "mxfp4" /\ r.m.dm = "False"]_vars

\* C2: once a background load that failed quantization verification has run
\* to its end, ready_for is false, last_error is non-empty, and every
\* /ready that computes its status from then on reports "error".
C2_FailedVerificationNotReady ==
    [][/\ VerifyFailedLoadDone' => (~ReadyFor' /\ Truthy(last_error'))
       /\ \A r \in ThreadStates :
            (VerifyFailedLoadDone /\ ReadyReadStatusAt(r)) =>
               ReadyStatus(last_error, r.loaded) = "error"]_vars

\* C3: while loading is true, ready_for is false.
C3_LoadingExcludesReady == loading => ~ReadyFor

\* C4: at every moment at most one execution of ModelHolder.load is in
\* progress.
C4_OneLoadInFlight == Cardinality({l \in Loaders : InFlight(l)}) <= 1

\* C4 witness: two /generate requests have both been through
\* ensure_loaded_async while the one load they started is still running.
C4_Witness ==
    /\ Cardinality({l \in Workers : InFlight(l)}) = 1
    /\ ThreadsAt({"g171"}) >= 2

\* C5 as stated: of calls of ensure_loaded_async that overlap, exactly one
\* starts a background load, whether that load succeeds or fails: a call
\* that was pending when another call started a load starts none.
C5_OverlappingCallsStartOneLoad ==
    [][\A r \in ThreadStates : StartsLoad(r) => ~r.ov]_vars

\* C5 amended: every call leaves a load running or the model resident, and
\* starts a load (one, never more) only when every load started before it
\* has ended in a failure that left the model not resident.
C5_IdempotentTrigger ==
    [][\A r \in ThreadStates : Calls(r) =>
          /\ loading' \/ ReadyFor'
          /\ LoadsStarted' <= LoadsStarted + 1
          /\ StartsLoad(r) =>
                /\ ~ReadyFor
                /\ \A l \in Workers \ UnbornWorkers : ld[l].end = "failed"]_vars

\* C5 witness: a call that was pending while another call started the load
\* has returned without starting a second one, the first still running.
C5_Witness ==
    /\ LoadsStarted = 1
    /\ \E l \in Workers : InFlight(l)
    /\ \E r \in ThreadStates : r.pc \in {"g171", "r136"} /\ r.ov

\* C6: whenever loading has been set, it is eventually reset, and the step
\* that resets it (the worker leaving its finally clause, on the return and
\* on the exception path alike) finds last_error cleared when the load
\* returned and equal to the exception's text when it raised.
C6_LoadingEventuallyReset ==
    /\ loading ~> ~loading
    /\ [][\A l \in Workers : WorkerEnds(l) =>
             /\ ~loading'
             /\ ld[l].exc = None => last_error' = None
             /\ ld[l].exc # None => last_error' = ld[l].exc]_vars

\* C6 witness: a background load has failed, its worker is gone, loading is
\* reset and the failure text recorded.
C6_Witness ==
    /\ \E l \in Workers : ld[l].end = "failed"
    /\ ~loading
    /\ \A l \in Workers : ~InFlight(l)
    /\ last_error = "load failed"

\* Load l returned normally (and, for a worker, may since have ended).
LoadSucceeded(l) == ld[l].pc = "returned" \/ ld[l].end = "ok"

\* C7: after a successful load, at startup or in the background, also one
\* that follows a failed load, ready_for is true and last_error is None.
C7_SuccessfulLoadReady ==
    (\E l \in Loaders : LoadSucceeded(l)) => (ReadyFor /\ last_error = None)

\* C7 witness: a background load has succeeded after an earlier one failed.
C7_Witness ==
    \E k, l \in Workers : ld[k].end = "failed" /\ LoadSucceeded(l)

\* C8: cold start is never answered with a decode: no /generate passes the
\* gate of lines 169-182 towards the decode before any load has completed or
\* while a load is in flight.  (The claim's other half, that the answer is
\* 202 and not 503, is not part of this formula.)
C8_ColdStartNeverDecodes ==
    [][\A r \in ThreadStates :
          (loading \/ ~SomeLoadCompleted) => ~PassesGate(r)]_vars

\* C9: /ready never starts a load at a moment when last_error is set.
C9_ReadyStartsNoLoadOnError ==
    [][\A r \in ThreadStates :
          (ReadyEnsureAt(r) /\ StartsLoad(r)) => last_error = None]_vars

\* C10: a failed background load leaves the state ERROR (not ready, not
\* loading, last_error set), and ERROR with the same last_error persists
\* through every step but an explicit trigger by /generate: not the worker,
\* nor any /ready poll, leaves it.
C10_ErrorSticky ==
    [][/\ \A l \in Workers : (WorkerEnds(l) /\ ld[l].exc # None) => ErrorState'
       /\ (ErrorState /\ ~\E r \in ThreadStates : GenEnsureAt(r)) =>
             (ErrorState' /\ last_error' = last_error)]_vars

\* The decode call of the request followed in detail has been made.
DecodeCalled ==
    \/ gen.pc \in {"g214", "g226"}
    \/ gen.pc = "sent" /\ gen.resp.kind # "raised"
\* In this step the request followed in detail ends in a failure.
RequestFails ==
    /\ gen.pc # "sent"
    /\ gen'.pc = "sent"
    /\ gen'.resp.kind \in {"error", "raised"}

\* C11: on a resident model no exception of tokenization, decoding or
\* detokenization leaves the /generate handler: each is answered with HTTP
\* 503 carrying the exception's text.
C11_FailuresAnswered503 ==
    gen.pc = "sent" =>
       /\ gen.resp.kind # "raised"
       /\ gen.resp.kind = "error" =>
             /\ gen.resp.code = 503
             /\ gen.resp.error[2] \in CallErrTexts

\* C12: a /generate request that fails in tokenization, decoding or
\* detokenization leaves model, tok, model_id, loading, last_error and
\* quant_method as they were, so that ready_for is still true and the
\* status /ready computes is still "ready".
C12_RequestFailureIsolated ==
    [][RequestFails =>
          /\ UNCHANGED holderVars
          /\ ReadyFor'
          /\ ReadyStatus(last_error', ReadyFor') = "ready"]_vars

\* C12 witness: a request has failed in detokenization and been answered,
\* the model still resident.
C12_Witness ==
    /\ gen.pc = "sent"
    /\ gen.resp.kind = "error"
    /\ gen.resp.error[1] = "decode failed: "
    /\ ReadyFor

\* C13: in every HTTP 200 response of /generate prompt_tokens is the length
\* of the tokenized prompt and completion_tokens is the decoder output's
\* length minus prompt_tokens, or 0 when the output is the shorter.
C13_CompletionTokensFloored ==
    (gen.pc = "sent" /\ gen.resp.kind = "text") =>
       LET d == Len(gen.out) - gen.input_len
       IN  /\ gen.resp.usage.prompt_tokens = gen.input_len
           /\ gen.resp.usage.completion_tokens = (IF d < 0 THEN 0 ELSE d)

\* C13 witness: a request whose decoder output was shorter than its prompt
\* has been answered with HTTP 200.
C13_Witness ==
    /\ gen.pc = "sent"
    /\ gen.resp.kind = "text"
    /\ Len(gen.out) < gen.input_len

\* Some string of stops occurs in text at position i.
StopAt(text, stops, i) ==
    \E k \in 1 .. Len(stops) :
       /\ Len(stops[k]) > 0
       /\ i + Len(stops[k]) - 1 <= Len(text)
       /\ SubSeq(text, i, i + Len(stops[k]) - 1) = stops[k]
\* text up to the first occurrence of a stop string.
TruncateAtStop(text, stops) ==
    LET hits == {i \in 1 .. Len(text) : StopAt(text, stops, i)}
    IN  IF hits = {} THEN text
        ELSE SubSeq(text, 1, (CHOOSE i \in hits : \A j \in hits : i <= j) - 1)

\* C14: when the request gives stop strings, the text of the HTTP 200
\* response is the newly generated text cut at the first occurrence of one
\* of them.
C14_TextTruncatedAtStop ==
    (gen.pc = "sent" /\ gen.resp.kind = "text" /\ gen.req.stop # Null) =>
       gen.resp.text = TruncateAtStop(Detok(GenIds(gen.out, gen.input_len)),
                                      gen.req.stop[1])

\* C15: the decode call gets max_new_tokens equal to the request's value
\* when the request gives one, and 512 when it gives none (the field left
\* out, or null).
C15_MaxNewTokensPassed ==
    DecodeCalled =>
       gen.call.max_new_tokens =
          (IF gen.body.max_new_tokens \in {Absent, Given(Null)}
              THEN 512
              ELSE gen.body.max_new_tokens[1][1])

\* C16: the decode call gets temperature, top_p and do_sample with the
\* request's values or else 0.7, 0.95 and true, and gets top_k,
\* repetition_penalty, eos_token_id and pad_token_id exactly when the
\* request gives them, with the request's values.
C16_SamplingParametersPassed ==
    DecodeCalled =>
       /\ \A f \in {"temperature", "top_p", "do_sample"} :
             /\ f \in DOMAIN gen.call
             /\ gen.call[f] =
                   (IF gen.body[f] # Absent THEN gen.body[f][1][1]
                    ELSE IF f = "temperature" THEN "0.7"
                    ELSE IF f = "top_p" THEN "0.95"
                    ELSE "True")
       /\ \A f \in {"top_k", "repetition_penalty", "eos_token_id", "pad_token_id"} :
             IF gen.body[f] = Absent
                THEN f \notin DOMAIN gen.call
                ELSE f \in DOMAIN gen.call /\ gen.call[f] = gen.body[f][1][1]

\* C17: a startup load that raises (a load error or a failed quantization
\* verification) is fatal: while the hook handles the exception the server
\* is still starting, afterwards it has exited, and no request thread has
\* ever left its idle position in such an instance.
C17_StartupFailureFatal ==
    /\ ld[StartupLoader].pc = "raised" => phase = "startup"
    /\ ld[StartupLoader].end \in {"failed", "unverified"} => phase = "exited"
    /\ (ld[StartupLoader].pc = "raised" \/ ld[StartupLoader].end \in {"failed", "unverified"})
          => ThreadsAt({"idle"}) = NumThreads

\* C17 witness: the startup load failed its quantization verification and
\* the server has exited.
C17_Witness ==
    /\ phase = "exited"
    /\ ld[StartupLoader].end = "unverified"

\* C18: once ready_for is true it stays true, no step starts another load
\* (loading does not go from false to true, no worker is started) and the
\* resident model, its id and its tokenizer are never replaced or cleared.
C18_ReadyPermanent ==
    [][ReadyFor =>
          /\ ReadyFor'
          /\ model' = model /\ model_id' = model_id /\ tok' = tok
          /\ ~loading => ~loading'
          /\ LoadsStarted' = LoadsStarted]_vars

\* C18 witness: the model is resident and no load is running while a request
\* that found it not ready is about to call ensure_loaded_async, and a
\* worker could still be started.
C18_Witness ==
    /\ ReadyFor /\ ~loading
    /\ UnbornWorkers # {}
    /\ ThreadsAt(EnsurePcs) >= 1

\* C19: in every reachable state, during a load and after a failed load
\* included, tok, model and model_id are all unset, or all set and the model
\* is the one stored by a load that succeeded.
C19_HandleAllOrNothing ==
    \/ tok = None /\ model = NoModel /\ model_id = None
    \/ /\ tok # None /\ model # NoModel /\ model_id # None
       /\ \E l \in Loaders : model.obj = l + 1 /\ LoadSucceeded(l)

\* C20: every /ready response is a consistent snapshot: one with status
\* "ready" is sent only after some load has succeeded and carries loading
\* false and error None; one with status "loading" carries loading true.
C20_ReadySnapshot ==
    [][\A r \in ThreadStates : ReadyRespondAt(r) =>
          /\ r.status = "ready" =>
                /\ \E l \in Loaders : LoadSucceeded(l)
                /\ ~r.rloading
                /\ last_error = None
          /\ r.status = "loading" => r.rloading]_vars

====
